---- MODULE Spec2Model ----
(***************************************************************************)
(* Model of the merge_data pipeline of glacier_clustering                  *)
(* (src/glacier_clustering/pipelines/merge_data/nodes.py).                 *)
(*                                                                         *)
(* A table (pandas DataFrame) is a sequence of records, one record per row *)
(* in table order; a missing value (NaN) is the value NaN below.  Every    *)
(* observation table carries one value column (the other value columns of  *)
(* the source are treated by exactly the same code).                       *)
(***************************************************************************)
EXTENDS Integers, Sequences, FiniteSets, TLC

VARIABLES
    done,                 \* names of the nodes / functions that have run
    error,                \* "none" or the exception a node raised
    df, cumsum,           \* argument and result of a direct get_cumsum call
    glacier, change, state, mass_balance,            \* raw source tables
    loaded_glacier, loaded_change, loaded_state, loaded_mass_balance,
    merged_data,          \* output of merge_data = the caller's table handed to to_timeseries
    x, y,                 \* to_timeseries: entity rank and time-step index of each surviving row
    timeseries,           \* to_timeseries: the tensor, timeseries[rank+1][step+1] = feature vector
    reference_data        \* to_timeseries: the surviving rows (the ReferenceTable, keyed by id/year)

vars == <<done, error, df, cumsum, glacier, change, state, mass_balance,
          loaded_glacier, loaded_change, loaded_state, loaded_mass_balance,
          merged_data, x, y, timeseries, reference_data>>

-----------------------------------------------------------------------------
(* Values *)

NaN == -99
Cutoff == 2000
Sentinel == 99

\* the configured parameters["features"]
Features == <<"AREA", "ANNUAL_BALANCE">>

-----------------------------------------------------------------------------
(* Bounds of the explored inputs *)

MaxCumsumRows == 3
MaxGlacierRows == 2
MaxRawRows == 3
MaxMergedRows == 4

Ids == {1, 2}
CumsumYears == {1999, 2000, 2001, 2002}
CumsumValues == {-1, 2, 3}
Years == {2000, 2001}

SeqsUpTo(S, n) == UNION {[1..k -> S] : k \in 0..n}

-----------------------------------------------------------------------------
(* pandas primitives *)

\* the distinct non-missing values of a column, ascending (groupby sorts its keys
\* and drops missing keys)
SortedKeys(t, col) ==
    LET S == {t[i][col] : i \in DOMAIN t} \ {NaN}
        rank(k) == Cardinality({j \in S : j < k}) + 1
    IN  [n \in 1..Cardinality(S) |-> CHOOSE k \in S : rank(k) = n]

\* DataFrame.sort_values(by=[c1, c2], ascending=asc): a stable lexicographic sort
Before(a, b, c1, c2, asc) ==
    IF asc THEN a[c1] < b[c1] \/ (a[c1] = b[c1] /\ a[c2] < b[c2])
           ELSE a[c1] > b[c1] \/ (a[c1] = b[c1] /\ a[c2] > b[c2])

SortValues(t, c1, c2, asc) ==
    LET pos(i) == Cardinality({j \in DOMAIN t :
                      \/ Before(t[j], t[i], c1, c2, asc)
                      \/ (~Before(t[i], t[j], c1, c2, asc) /\ j < i)}) + 1
    IN  [n \in DOMAIN t |-> t[CHOOSE i \in DOMAIN t : pos(i) = n]]

\* DataFrame.dropna(subset=cols) (how='any'): drop a row when any of cols is missing
DropNaAny(t, cols) == SelectSeq(t, LAMBDA r : \A c \in cols : r[c] # NaN)

\* the rows with YEAR >= 2000 (a missing year compares false)
YearFilter(t) == SelectSeq(t, LAMBDA r : r.YEAR # NaN /\ r.YEAR >= Cutoff)

\* sum() of a group skips missing values; an all-missing group sums to 0
RECURSIVE SumSkipNa(_, _)
SumSkipNa(t, col) ==
    IF t = <<>> THEN 0
    ELSE (IF Head(t)[col] = NaN THEN 0 ELSE Head(t)[col]) + SumSkipNa(Tail(t), col)

-----------------------------------------------------------------------------
(* get_cumsum, for a table with the value column col *)

\* df.loc[df["YEAR"] >= 2000, cols].sort_values(["YEAR", "WGMS_ID"])
CumsumSelect(t) == SortValues(YearFilter(t), "YEAR", "WGMS_ID", TRUE)

\* .groupby(["WGMS_ID", "YEAR"]).sum(): one row per key pair, ordered by (id, year)
RECURSIVE GroupYears(_, _, _, _)
GroupYears(t, id, yrs, col) ==
    IF yrs = <<>> THEN <<>>
    ELSE <<[WGMS_ID |-> id, YEAR |-> Head(yrs)]
             @@ (col :> SumSkipNa(SelectSeq(t, LAMBDA r : r.YEAR = Head(yrs)), col))>>
         \o GroupYears(t, id, Tail(yrs), col)

RECURSIVE GroupIds(_, _, _)
GroupIds(t, ids, col) ==
    IF ids = <<>> THEN <<>>
    ELSE LET g == SelectSeq(t, LAMBDA r : r.WGMS_ID = Head(ids))
         IN  GroupYears(g, Head(ids), SortedKeys(g, "YEAR"), col)
             \o GroupIds(t, Tail(ids), col)

GroupBySum(t, col) == GroupIds(t, SortedKeys(t, "WGMS_ID"), col)

\* a running sum that is not reset per entity (cumsum() without the groupby(level=0))
LevelCumsumUngrouped(g, col) ==
    [i \in DOMAIN g |-> [g[i] EXCEPT ![col] = SumSkipNa(SubSeq(g, 1, i), col)]]

\* .groupby(level=0).cumsum(): running sum of col down the rows of the same id
LevelCumsum(g, col) ==
    [i \in DOMAIN g |->
        [g[i] EXCEPT ![col] =
            SumSkipNa(SelectSeq(SubSeq(g, 1, i), LAMBDA r : r.WGMS_ID = g[i].WGMS_ID), col)]]

get_cumsum(t, col) == LevelCumsum(GroupBySum(CumsumSelect(t), col), col)

-----------------------------------------------------------------------------
(* Source loaders *)

\* DataFrame.drop_duplicates(subset=[col]): keep the first row of every value
DropDuplicates(t, col) ==
    LET keep == {i \in DOMAIN t : \A j \in 1..(i - 1) : t[j][col] # t[i][col]}
        nth(n) == CHOOSE i \in keep : Cardinality({j \in keep : j < i}) = n - 1
    IN  [n \in 1..Cardinality(keep) |-> t[nth(n)]]

\* DataFrame.fillna(v) restricted to the columns cols
FillNa(t, cols, v) ==
    [i \in DOMAIN t |->
        [c \in DOMAIN t[i] |-> IF c \in cols /\ t[i][c] = NaN THEN v ELSE t[i][c]]]

load_glacier(t) ==
    LET dedup == DropDuplicates(t, "WGMS_ID")
        positioned == DropNaAny(dedup, {"WGMS_ID", "LATITUDE", "LONGITUDE"})
    IN  FillNa(positioned, {"PRIM_CLASSIFIC", "FORM", "FRONTAL_CHARS"}, Sentinel)

load_change(t) ==
    FillNa(get_cumsum(YearFilter(DropNaAny(t, {"WGMS_ID"})), "AREA_CHANGE"),
           {"WGMS_ID", "YEAR", "AREA_CHANGE"}, 0)

load_mass_balance(t) ==
    FillNa(get_cumsum(YearFilter(DropNaAny(t, {"WGMS_ID"})), "ANNUAL_BALANCE"),
           {"WGMS_ID", "YEAR", "ANNUAL_BALANCE"}, 0)

load_state(t) ==
    LET keyed == DropNaAny(t, {"WGMS_ID"})
        descending == SortValues(keyed, "WGMS_ID", "YEAR", FALSE)
    IN  SortValues(YearFilter(descending), "YEAR", "WGMS_ID", TRUE)

-----------------------------------------------------------------------------
(* merge_data *)

GlacierCols == {"LATITUDE", "LONGITUDE", "PRIM_CLASSIFIC", "FORM", "FRONTAL_CHARS"}

NaRow(cols) == [c \in cols |-> NaN]

Restrict(r, cols) == [c \in cols |-> r[c]]

\* how="inner" in place of how="right": a row of right without a match is dropped
RECURSIVE MergeInner(_, _, _)
MergeInner(left, right, lcols) ==
    IF right = <<>> THEN <<>>
    ELSE LET r == Head(right)
             m == SelectSeq(left, LAMBDA l : l.WGMS_ID = r.WGMS_ID)
         IN  [n \in DOMAIN m |-> r @@ Restrict(m[n], lcols)]
             \o MergeInner(left, Tail(right), lcols)

\* left.merge(right, on="WGMS_ID", how="right"): every row of right, in right's
\* order, once per matching row of left, or once with left's columns missing
RECURSIVE MergeRight(_, _, _)
MergeRight(left, right, lcols) ==
    IF right = <<>> THEN <<>>
    ELSE LET r == Head(right)
             m == SelectSeq(left, LAMBDA l : l.WGMS_ID = r.WGMS_ID)
         IN  (IF m = <<>> THEN <<r @@ NaRow(lcols)>>
              ELSE [n \in DOMAIN m |-> r @@ Restrict(m[n], lcols)])
             \o MergeRight(left, Tail(right), lcols)

\* the distinct (WGMS_ID, YEAR) pairs of the rows of both tables, in lexicographic order
SortedPairs(S) ==
    LET lt(a, b) == a[1] < b[1] \/ (a[1] = b[1] /\ a[2] < b[2])
        rank(k) == Cardinality({j \in S : lt(j, k)}) + 1
    IN  [n \in 1..Cardinality(S) |-> CHOOSE k \in S : rank(k) = n]

KeyOf(r) == <<r.WGMS_ID, r.YEAR>>

\* left.merge(right, on=["WGMS_ID", "YEAR"], how="outer"): the union of the keys in
\* sorted order; per key the product of the matching rows, or the rows of the one
\* side with the columns of the other side missing
RECURSIVE MergeOuterKeys(_, _, _, _, _)
MergeOuterKeys(left, right, keys, lcols, rcols) ==
    IF keys = <<>> THEN <<>>
    ELSE LET L == SelectSeq(left, LAMBDA l : KeyOf(l) = Head(keys))
             R == SelectSeq(right, LAMBDA r : KeyOf(r) = Head(keys))
             rows == IF R = <<>> THEN [n \in DOMAIN L |-> L[n] @@ NaRow(rcols)]
                     ELSE IF L = <<>> THEN [n \in DOMAIN R |-> R[n] @@ NaRow(lcols)]
                     ELSE [n \in 1..(Len(L) * Len(R)) |->
                              L[((n - 1) \div Len(R)) + 1]
                                @@ Restrict(R[((n - 1) % Len(R)) + 1], rcols)]
         IN  rows \o MergeOuterKeys(left, right, Tail(keys), lcols, rcols)

\* how="left" in place of how="outer": only the keys of left
MergeLeft(left, right, lcols, rcols) ==
    MergeOuterKeys(left, right,
                   SortedPairs({KeyOf(left[i]) : i \in DOMAIN left}), lcols, rcols)

MergeOuter(left, right, lcols, rcols) ==
    MergeOuterKeys(left, right,
                   SortedPairs({KeyOf(left[i]) : i \in DOMAIN left}
                               \cup {KeyOf(right[i]) : i \in DOMAIN right}),
                   lcols, rcols)

merge_data(lg, lc, ls, lmb) ==
    LET with_change == MergeRight(lg, lc, GlacierCols)
        with_state == MergeOuter(with_change, ls,
                                 GlacierCols \cup {"AREA_CHANGE"}, {"AREA"})
    IN  MergeOuter(with_state, lmb,
                   GlacierCols \cup {"AREA_CHANGE", "AREA"}, {"ANNUAL_BALANCE"})

-----------------------------------------------------------------------------
(* to_timeseries *)

\* the values of the feature columns of a row (merged_data.loc[:, features].values)
Vals(r, features) == [f \in DOMAIN features |-> r[features[f]]]

\* DataFrame.dropna(subset=features, how='all'): drop a row when all features are missing
DropNaAll(t, features) ==
    SelectSeq(t, LAMBDA r : \E f \in DOMAIN features : r[features[f]] # NaN)

\* [g for _, g in t.groupby(col) if len(g) > 1]: the groups in ascending key order,
\* each group with its rows in table order
RECURSIVE LargeGroups(_, _, _)
LargeGroups(t, keys, col) ==
    IF keys = <<>> THEN <<>>
    ELSE LET g == SelectSeq(t, LAMBDA r : r[col] = Head(keys))
         IN  (IF Len(g) > 1 THEN <<g>> ELSE <<>>) \o LargeGroups(t, Tail(keys), col)

\* pd.concat raises ValueError("No objects to concatenate") on an empty list
ConcatRaises(groups) == groups = <<>>

\* pd.concat(groups) of a non-empty list of groups
RECURSIVE Concat(_)
Concat(groups) ==
    IF groups = <<>> THEN <<>> ELSE Head(groups) \o Concat(Tail(groups))

EntityGroups(t) == LargeGroups(t, SortedKeys(t, "WGMS_ID"), "WGMS_ID")

\* a year filter that keeps the years in the order they first occur in the table
\* (groupby(..., sort=False))
YearGroupsInTableOrder(t) ==
    LET firsts == {i \in DOMAIN t : \A j \in 1..(i - 1) : t[j].YEAR # t[i].YEAR}
        nth(n) == CHOOSE i \in firsts : Cardinality({j \in firsts : j < i}) = n - 1
    IN  LargeGroups(t, [n \in 1..Cardinality(firsts) |-> t[nth(n)].YEAR], "YEAR")

\* a year filter that keeps every year (len(g) > 0)
RECURSIVE AllGroups(_, _, _)
AllGroups(t, keys, col) ==
    IF keys = <<>> THEN <<>>
    ELSE <<SelectSeq(t, LAMBDA r : r[col] = Head(keys))>> \o AllGroups(t, Tail(keys), col)

YearGroupsUnfiltered(t) == AllGroups(t, SortedKeys(t, "YEAR"), "YEAR")

YearGroups(t) == LargeGroups(t, SortedKeys(t, "YEAR"), "YEAR")

\* Series.factorize()[0]: the 0-based rank of each row's identifier in first-seen order
Factorize(t) ==
    LET first(i) == CHOOSE j \in 1..i :
                        /\ t[j].WGMS_ID = t[i].WGMS_ID
                        /\ \A k \in 1..(j - 1) : t[k].WGMS_ID # t[i].WGMS_ID
    IN  [i \in DOMAIN t |-> Cardinality({t[j].WGMS_ID : j \in 1..(first(i) - 1)})]

\* a running row count that is not restarted per entity
CumcountUngrouped(codes) == [i \in DOMAIN codes |-> i - 1]

\* groupby(codes).cumcount(): the number of earlier rows with the same code
Cumcount(codes) ==
    [i \in DOMAIN codes |-> Cardinality({j \in 1..(i - 1) : codes[j] = codes[i]})]

SeqMax(q) == CHOOSE m \in {q[i] : i \in DOMAIN q} : \A i \in DOMAIN q : q[i] <= m

\* np.full(out_shp, np.nan)
Full(n, tmax, nf) == [r \in 1..n |-> [s \in 1..tmax |-> [f \in 1..nf |-> NaN]]]

\* out[x, y] = vals: the rows are written in table order, a later write wins
RECURSIVE Scatter(_, _, _, _, _)
Scatter(out, xs, ys, vals, i) ==
    IF i > Len(vals) THEN out
    ELSE Scatter([out EXCEPT ![xs[i] + 1][ys[i] + 1] = vals[i]], xs, ys, vals, i + 1)

\* tslearn ts_size: the length of a series without its trailing all-missing steps
RECURSIVE ts_size(_)
ts_size(ts) ==
    IF ts = <<>> THEN 0
    ELSE IF \A f \in DOMAIN ts[Len(ts)] : ts[Len(ts)][f] = NaN
         THEN ts_size(SubSeq(ts, 1, Len(ts) - 1))
         ELSE Len(ts)

\* tslearn to_time_series_dataset: every series cut to its ts_size and padded with
\* missing values to the longest of them
to_time_series_dataset(out, nf) ==
    LET max_sz == SeqMax([r \in DOMAIN out |-> ts_size(out[r])])
    IN  [r \in DOMAIN out |->
            [s \in 1..max_sz |->
                IF s <= ts_size(out[r]) THEN out[r][s] ELSE [f \in 1..nf |-> NaN]]]

\* the table left in the caller's frame by dropna(..., inplace=True)
InplaceDropNa(t, features) == DropNaAll(t, features)

\* lines 158-160: the rows left by the three filters, in the order the two
\* concatenations leave them, and whether one of the concatenations raised
Survivors(t, features) ==
    LET dropped == DropNaAll(t, features)
        entities == EntityGroups(dropped)
        years == YearGroups(Concat(entities))
    IN  [raised |-> ConcatRaises(entities) \/ ConcatRaises(years),
         rows |-> Concat(years)]

\* lines 165-174: factorize, cumcount, scatter into the padded array, re-index
Reshape(rows, features) ==
    LET xs == Factorize(rows)
        ys == Cumcount(xs)
        vals == [i \in DOMAIN rows |-> Vals(rows[i], features)]
        out == Scatter(Full(SeqMax(xs) + 1, SeqMax(ys) + 1, Len(features)),
                       xs, ys, vals, 1)
    IN  [error |-> "none", x |-> xs, y |-> ys,
         timeseries |-> to_time_series_dataset(out, Len(features)),
         reference_data |-> rows]

Raised(e) ==
    [error |-> e, x |-> <<>>, y |-> <<>>, timeseries |-> <<>>, reference_data |-> <<>>]

\* a to_timeseries that answers an empty selection with an empty tensor and an
\* empty reference table instead of an exception
to_timeseries_quiet(t, features) ==
    LET s == Survivors(t, features)
    IN  IF s.rows = <<>> THEN Raised("none") ELSE Reshape(s.rows, features)

\* the result of to_timeseries on a table; error is the exception pd.concat raises
\* when it is handed no group at all
to_timeseries(t, features) ==
    LET s == Survivors(t, features)
    IN  IF s.raised THEN Raised("ValueError") ELSE Reshape(s.rows, features)

-----------------------------------------------------------------------------
(* Node executions *)

NoCall == df = <<>> /\ cumsum = <<>>

NoRaw == glacier = <<>> /\ change = <<>> /\ state = <<>> /\ mass_balance = <<>>

NoLoaded ==
    /\ loaded_glacier = <<>> /\ loaded_change = <<>>
    /\ loaded_state = <<>> /\ loaded_mass_balance = <<>>

NoResult == x = <<>> /\ y = <<>> /\ timeseries = <<>> /\ reference_data = <<>>

Loaders == {"load_glacier", "load_change", "load_state", "load_mass_balance"}

GetCumsum ==
    /\ "get_cumsum" \notin done
    /\ cumsum' = get_cumsum(df, "VAL")
    /\ done' = done \cup {"get_cumsum"}
    /\ UNCHANGED <<error, df, glacier, change, state, mass_balance,
                   loaded_glacier, loaded_change, loaded_state, loaded_mass_balance,
                   merged_data, x, y, timeseries, reference_data>>

LoadGlacier ==
    /\ "load_glacier" \notin done
    /\ loaded_glacier' = load_glacier(glacier)
    /\ done' = done \cup {"load_glacier"}
    /\ UNCHANGED <<error, df, cumsum, glacier, change, state, mass_balance,
                   loaded_change, loaded_state, loaded_mass_balance,
                   merged_data, x, y, timeseries, reference_data>>

LoadChange ==
    /\ "load_change" \notin done
    /\ loaded_change' = load_change(change)
    /\ done' = done \cup {"load_change"}
    /\ UNCHANGED <<error, df, cumsum, glacier, change, state, mass_balance,
                   loaded_glacier, loaded_state, loaded_mass_balance,
                   merged_data, x, y, timeseries, reference_data>>

LoadState ==
    /\ "load_state" \notin done
    /\ loaded_state' = load_state(state)
    /\ done' = done \cup {"load_state"}
    /\ UNCHANGED <<error, df, cumsum, glacier, change, state, mass_balance,
                   loaded_glacier, loaded_change, loaded_mass_balance,
                   merged_data, x, y, timeseries, reference_data>>

LoadMassBalance ==
    /\ "load_mass_balance" \notin done
    /\ loaded_mass_balance' = load_mass_balance(mass_balance)
    /\ done' = done \cup {"load_mass_balance"}
    /\ UNCHANGED <<error, df, cumsum, glacier, change, state, mass_balance,
                   loaded_glacier, loaded_change, loaded_state,
                   merged_data, x, y, timeseries, reference_data>>

MergeData ==
    /\ Loaders \subseteq done
    /\ "merge_data" \notin done
    /\ merged_data' = merge_data(loaded_glacier, loaded_change,
                                 loaded_state, loaded_mass_balance)
    /\ done' = done \cup {"merge_data"}
    /\ UNCHANGED <<error, df, cumsum, glacier, change, state, mass_balance,
                   loaded_glacier, loaded_change, loaded_state, loaded_mass_balance,
                   x, y, timeseries, reference_data>>

\* to_timeseries(merged_data, parameters) called on the merged table; the
\* in-place dropna acts on the caller's table whether the call returns or raises
ToTimeseries ==
    /\ "merge_data" \in done
    /\ "to_timeseries" \notin done
    /\ LET res == to_timeseries(merged_data, Features)
       IN  /\ merged_data' = InplaceDropNa(merged_data, Features)
           /\ error' = res.error
           /\ x' = res.x
           /\ y' = res.y
           /\ timeseries' = res.timeseries
           /\ reference_data' = res.reference_data
    /\ done' = done \cup {"to_timeseries"}
    /\ UNCHANGED <<df, cumsum, glacier, change, state, mass_balance,
                   loaded_glacier, loaded_change, loaded_state, loaded_mass_balance>>

-----------------------------------------------------------------------------
(* A direct call of get_cumsum on an arbitrary observation table *)

CumsumRows ==
    [WGMS_ID : Ids, YEAR : CumsumYears, VAL : CumsumValues]
    \cup [WGMS_ID : {NaN}, YEAR : {2000}, VAL : {2}]
    \cup [WGMS_ID : {1}, YEAR : {2000, 2001}, VAL : {NaN}]

InitCumsum ==
    /\ df \in SeqsUpTo(CumsumRows, MaxCumsumRows)
    /\ cumsum = <<>>
    /\ done = {} /\ error = "none"
    /\ NoRaw /\ NoLoaded /\ merged_data = <<>> /\ NoResult

NextCumsum == GetCumsum

SpecCumsum == InitCumsum /\ [][NextCumsum]_vars

-----------------------------------------------------------------------------
(* load_glacier on an arbitrary raw glacier table *)

RawGlacierRows ==
    [WGMS_ID : Ids \cup {NaN}, LATITUDE : {NaN, 10}, LONGITUDE : {NaN, 20},
     PRIM_CLASSIFIC : {NaN, 4}, FORM : {NaN, 5}, FRONTAL_CHARS : {NaN, 6}]

InitGlacier ==
    /\ glacier \in SeqsUpTo(RawGlacierRows, MaxGlacierRows)
    /\ change = <<>> /\ state = <<>> /\ mass_balance = <<>>
    /\ done = {} /\ error = "none"
    /\ NoCall /\ NoLoaded /\ merged_data = <<>> /\ NoResult

NextGlacier == LoadGlacier

SpecGlacier == InitGlacier /\ [][NextGlacier]_vars

-----------------------------------------------------------------------------
(* The whole pipeline: the four loaders in any order, merge_data, to_timeseries *)

PipelineGlacierRows ==
    [WGMS_ID : Ids, LATITUDE : {10}, LONGITUDE : {20},
     PRIM_CLASSIFIC : {NaN}, FORM : {NaN}, FRONTAL_CHARS : {NaN}]
    \cup [WGMS_ID : Ids, LATITUDE : {NaN}, LONGITUDE : {NaN},
          PRIM_CLASSIFIC : {NaN}, FORM : {NaN}, FRONTAL_CHARS : {NaN}]

PipelineChangeRows == [WGMS_ID : Ids, YEAR : Years \cup {1999}, AREA_CHANGE : {1}]

PipelineStateRows == [WGMS_ID : Ids, YEAR : Years, AREA : {NaN, 5}]

PipelineMassBalanceRows == [WGMS_ID : Ids, YEAR : Years, ANNUAL_BALANCE : {7}]

InitPipeline ==
    /\ glacier \in SeqsUpTo(PipelineGlacierRows, MaxRawRows)
    /\ change \in SeqsUpTo(PipelineChangeRows, MaxRawRows - Len(glacier))
    /\ state \in SeqsUpTo(PipelineStateRows, MaxRawRows - Len(glacier) - Len(change))
    /\ mass_balance \in SeqsUpTo(PipelineMassBalanceRows,
                                 MaxRawRows - Len(glacier) - Len(change) - Len(state))
    /\ done = {} /\ error = "none"
    /\ NoCall /\ NoLoaded /\ merged_data = <<>> /\ NoResult

NextPipeline ==
    \/ LoadGlacier
    \/ LoadChange
    \/ LoadState
    \/ LoadMassBalance
    \/ MergeData
    \/ ToTimeseries

SpecPipeline == InitPipeline /\ [][NextPipeline]_vars

-----------------------------------------------------------------------------
(* to_timeseries on an arbitrary merged table *)

MergedRows ==
    [WGMS_ID : Ids, YEAR : Years, AREA : {NaN}, ANNUAL_BALANCE : {NaN}]
    \cup [WGMS_ID : Ids, YEAR : Years, AREA : {5}, ANNUAL_BALANCE : {NaN}]
    \cup [WGMS_ID : Ids, YEAR : Years, AREA : {6}, ANNUAL_BALANCE : {7}]

InitTimeseries ==
    /\ merged_data \in SeqsUpTo(MergedRows, MaxMergedRows)
    /\ done = Loaders \cup {"merge_data"} /\ error = "none"
    /\ NoCall /\ NoRaw /\ NoLoaded /\ NoResult

NextTimeseries == ToTimeseries

SpecTimeseries == InitTimeseries /\ [][NextTimeseries]_vars

-----------------------------------------------------------------------------
(* Properties of get_cumsum *)

\* C1: the output of get_cumsum has exactly one row per distinct (entity
\* identifier, year) pair of the input with year >= 2000, and the value of that
\* row is the sum of the raw values of all input rows of the same entity with
\* 2000 <= year' <= year; other entities and earlier years never contribute.
CumsumIsPerEntityRunningSum ==
    "get_cumsum" \in done =>
        LET live == {i \in DOMAIN df : df[i].WGMS_ID # NaN /\ df[i].YEAR >= 2000}
            pairs == {<<df[i].WGMS_ID, df[i].YEAR>> : i \in live}
            raw(i) == IF df[i].VAL = NaN THEN 0 ELSE df[i].VAL
            RECURSIVE total(_)
            total(S) == IF S = {} THEN 0
                        ELSE LET i == CHOOSE i \in S : TRUE
                             IN  raw(i) + total(S \ {i})
        IN  /\ Len(cumsum) = Cardinality(pairs)
            /\ {<<cumsum[n].WGMS_ID, cumsum[n].YEAR>> : n \in DOMAIN cumsum} = pairs
            /\ \A n \in DOMAIN cumsum :
                  cumsum[n].VAL =
                      total({i \in live : /\ df[i].WGMS_ID = cumsum[n].WGMS_ID
                                          /\ df[i].YEAR <= cumsum[n].YEAR})

\* an entity observed as 2, 3, -1 in three increasing years (rows in any order)
\* has been accumulated to 2, 5, 4
CumsumExampleReached ==
    /\ "get_cumsum" \in done
    /\ \E a, b, c \in DOMAIN df :
          /\ df[a].WGMS_ID = 1 /\ df[b].WGMS_ID = 1 /\ df[c].WGMS_ID = 1
          /\ df[a].YEAR = 2000 /\ df[b].YEAR = 2001 /\ df[c].YEAR = 2002
          /\ df[a].VAL = 2 /\ df[b].VAL = 3 /\ df[c].VAL = -1
    /\ Len(cumsum) = 3
    /\ cumsum[1].VAL = 2 /\ cumsum[2].VAL = 5 /\ cumsum[3].VAL = 4

-----------------------------------------------------------------------------
(* Properties of load_glacier *)

\* C9: load_glacier removes only duplicates and glaciers without position: every
\* non-null entity identifier that has at least one raw row with non-null
\* latitude and longitude appears in the output exactly once, with non-null
\* position, whatever the order of its duplicate rows.
PositionedGlacierIsKept ==
    "load_glacier" \in done =>
        \A i \in DOMAIN glacier :
            (glacier[i].WGMS_ID # NaN /\ glacier[i].LATITUDE # NaN
                                      /\ glacier[i].LONGITUDE # NaN)
            => /\ Cardinality({n \in DOMAIN loaded_glacier :
                      loaded_glacier[n].WGMS_ID = glacier[i].WGMS_ID}) = 1
               /\ \A n \in DOMAIN loaded_glacier :
                      loaded_glacier[n].WGMS_ID = glacier[i].WGMS_ID
                      => /\ loaded_glacier[n].LATITUDE # NaN
                         /\ loaded_glacier[n].LONGITUDE # NaN

-----------------------------------------------------------------------------
(* Properties of merge_data *)

IdsOf(t) == {t[i].WGMS_ID : i \in DOMAIN t}

Merged == "merge_data" \in done /\ "to_timeseries" \notin done

\* C2 (as stated): an entity present in the loaded change table but absent from
\* the loaded glacier table is dropped by merge_data: no merged row carries its
\* identifier.
ChangeOnlyEntityIsDropped ==
    Merged => \A e \in IdsOf(loaded_change) \ IdsOf(loaded_glacier) :
                  e \notin IdsOf(merged_data)

\* C2 (amended): an entity present in the loaded change table but absent from
\* the loaded glacier table is kept by merge_data: every one of its change rows
\* appears in the merged output under the same (identifier, year) with its
\* change value, and every merged row of the entity has missing position.
ChangeOnlyEntityIsKept ==
    Merged => \A e \in IdsOf(loaded_change) \ IdsOf(loaded_glacier) :
                  /\ \A i \in DOMAIN loaded_change :
                        loaded_change[i].WGMS_ID = e
                        => \E n \in DOMAIN merged_data :
                              /\ merged_data[n].WGMS_ID = e
                              /\ merged_data[n].YEAR = loaded_change[i].YEAR
                              /\ merged_data[n].AREA_CHANGE = loaded_change[i].AREA_CHANGE
                  /\ \A n \in DOMAIN merged_data :
                        merged_data[n].WGMS_ID = e
                        => /\ merged_data[n].LATITUDE = NaN
                           /\ merged_data[n].LONGITUDE = NaN

\* merge_data has run on a change table holding an entity the glacier table lacks
ChangeOnlyEntityMerged ==
    /\ Merged
    /\ IdsOf(loaded_change) \ IdsOf(loaded_glacier) # {}
    /\ IdsOf(loaded_glacier) # {}

\* C3 (as stated): a glacier with no row in the loaded change table is dropped
\* by merge_data: no merged row carries its identifier, whatever the state and
\* mass-balance tables contain for it.
GlacierWithoutChangeIsDropped ==
    Merged => \A e \in IdsOf(loaded_glacier) \ IdsOf(loaded_change) :
                  e \notin IdsOf(merged_data)

\* C3 (amended): a glacier with no row in the loaded change table loses its
\* glacier record in merge_data: its identifier is carried by a merged row
\* exactly when the loaded state or mass-balance table has a row for it, and
\* such rows have missing position and missing change value.
GlacierWithoutChangeLosesRecord ==
    Merged => \A e \in IdsOf(loaded_glacier) \ IdsOf(loaded_change) :
                  /\ e \in IdsOf(merged_data)
                     <=> e \in IdsOf(loaded_state) \cup IdsOf(loaded_mass_balance)
                  /\ \A n \in DOMAIN merged_data :
                        merged_data[n].WGMS_ID = e
                        => /\ merged_data[n].LATITUDE = NaN
                           /\ merged_data[n].LONGITUDE = NaN
                           /\ merged_data[n].AREA_CHANGE = NaN

\* merge_data has run on a glacier without change rows that the state table observes
GlacierWithoutChangeMerged ==
    /\ Merged
    /\ \E e \in IdsOf(loaded_glacier) \ IdsOf(loaded_change) : e \in IdsOf(loaded_state)
    /\ \E e \in IdsOf(loaded_glacier) \ IdsOf(loaded_change) : e \notin IdsOf(merged_data)

-----------------------------------------------------------------------------
(* Properties of to_timeseries *)

Returned == "to_timeseries" \in done /\ error = "none"

\* the number of rows of table t that agree with row r on column col
Count(t, col, r) == Cardinality({n \in DOMAIN t : t[n][col] = r[col]})

\* C4 (as stated): the rows that make up the tensor and the ReferenceTable
\* satisfy both filters at once: every entity identifier among them has more
\* than one of those rows and every year among them has more than one of them.
BothFiltersHoldOnResult ==
    Returned => \A n \in DOMAIN reference_data :
                    /\ Count(reference_data, "WGMS_ID", reference_data[n]) > 1
                    /\ Count(reference_data, "YEAR", reference_data[n]) > 1

\* C4 (amended): every year among the rows of the tensor and the ReferenceTable
\* has more than one of those rows; every entity among them has more than one
\* row among the merged rows with at least one feature present (the rows the
\* entity filter saw), but possibly a single row in the result.
YearFilterHoldsOnResult ==
    Returned => \A n \in DOMAIN reference_data :
                    /\ Count(reference_data, "YEAR", reference_data[n]) > 1
                    /\ Count(DropNaAll(merged_data, Features), "WGMS_ID",
                             reference_data[n]) > 1

\* to_timeseries has returned a result in which the year filter left an entity
\* with a single row
SingleRowEntityReturned ==
    /\ Returned
    /\ \E n \in DOMAIN reference_data :
          Count(reference_data, "WGMS_ID", reference_data[n]) = 1

\* C5: when the merged table comes from the four loaders and merge_data, the
\* ReferenceTable has as many rows as there are surviving (scattered) rows and
\* no two of its rows share the same (entity identifier, year).
ReferenceKeyIsUnique ==
    ("merge_data" \in done /\ Loaders \subseteq done /\ Returned)
    => /\ Len(reference_data) = Len(x)
       /\ \A m, n \in DOMAIN reference_data :
             KeyOf(reference_data[m]) = KeyOf(reference_data[n]) => m = n

\* C6: the scatter is a bijection between the surviving rows and the slots
\* (rank(e), i), 0 <= i < c_e: no two rows share a slot, slot (rank(e), i) holds
\* the features of e's i-th row in table order, the slots from c_e up to T_max
\* hold only the missing-value marker, the entity axis has one entry per
\* distinct surviving identifier and T_max is the largest c_e.
ScatterIsBijection ==
    Returned =>
        LET ref == reference_data
            es == IdsOf(ref)
            rowsOf(e) == SelectSeq(ref, LAMBDA r : r.WGMS_ID = e)
            c(e) == Len(rowsOf(e))
            first(e) == CHOOSE n \in DOMAIN ref :
                            /\ ref[n].WGMS_ID = e
                            /\ \A k \in 1..(n - 1) : ref[k].WGMS_ID # e
            rank(e) == Cardinality({d \in es : first(d) < first(e)})
            tmax == Len(timeseries[1])
        IN  /\ Len(timeseries) = Cardinality(es)
            /\ \A r \in DOMAIN timeseries : Len(timeseries[r]) = tmax
            /\ \E e \in es : c(e) = tmax
            /\ \A e \in es : c(e) <= tmax
            /\ Len(x) = Len(ref) /\ Len(y) = Len(ref)
            /\ \A m, n \in DOMAIN ref : (x[m] = x[n] /\ y[m] = y[n]) => m = n
            /\ {<<x[n], y[n]>> : n \in DOMAIN ref}
                  = UNION {{<<rank(e), i>> : i \in 0..(c(e) - 1)} : e \in es}
            /\ \A n \in DOMAIN ref :
                  /\ x[n] = rank(ref[n].WGMS_ID)
                  /\ rowsOf(ref[n].WGMS_ID)[y[n] + 1] = ref[n]
            /\ \A e \in es :
                  /\ \A i \in 0..(c(e) - 1) :
                        timeseries[rank(e) + 1][i + 1]
                            = <<rowsOf(e)[i + 1].AREA, rowsOf(e)[i + 1].ANNUAL_BALANCE>>
                  /\ \A i \in c(e)..(tmax - 1) :
                        timeseries[rank(e) + 1][i + 1] = <<NaN, NaN>>

\* to_timeseries has returned a tensor of two entities of which one is padded
PaddedTensorReturned ==
    /\ Returned
    /\ Len(timeseries) = 2
    /\ \E n \in DOMAIN reference_data :
          Count(reference_data, "WGMS_ID", reference_data[n]) < Len(timeseries[1])

\* C7: whenever the filter steps of to_timeseries (rows with all features
\* missing, single-observation entities, single-entity years) eliminate all
\* rows, to_timeseries ends in an error; it never returns a zero-sized tensor or
\* an empty ReferenceTable.
EmptySelectionRaises ==
    "to_timeseries" \in done =>
        LET t == merged_data
            D == {n \in DOMAIN t : t[n].AREA # NaN \/ t[n].ANNUAL_BALANCE # NaN}
            E == {n \in D : \E m \in D \ {n} : t[m].WGMS_ID = t[n].WGMS_ID}
            Y == {n \in E : \E m \in E \ {n} : t[m].YEAR = t[n].YEAR}
        IN  /\ Y = {} => error # "none"
            /\ error = "none" =>
                  /\ reference_data # <<>>
                  /\ timeseries # <<>>
                  /\ \A r \in DOMAIN timeseries : timeseries[r] # <<>>

\* to_timeseries has raised on a table whose entities all passed the entity
\* filter and whose rows were then all eliminated by the year filter
YearFilterEmptiedTable ==
    /\ "to_timeseries" \in done
    /\ error = "ValueError"
    /\ merged_data # <<>>
    /\ \A n \in DOMAIN merged_data :
          /\ merged_data[n].AREA # NaN
          /\ Count(merged_data, "WGMS_ID", merged_data[n]) > 1
          /\ Count(merged_data, "YEAR", merged_data[n]) = 1

\* C8: to_timeseries leaves its input unchanged: after the call has returned or
\* failed, the caller's merged_data holds exactly the rows it held before.
InputTableUnchanged == [][merged_data' = merged_data]_vars

\* C10: within each entity the row placed at time-step i has a year less than
\* or equal to the year of the row placed at time-step i + 1, for any order of
\* the input rows.
TimeStepsFollowYears ==
    Returned => \A m, n \in DOMAIN reference_data :
                    (x[m] = x[n] /\ y[n] = y[m] + 1)
                    => reference_data[m].YEAR <= reference_data[n].YEAR

\* to_timeseries has returned for an input in which an entity's later year came
\* first, and both of these rows are in the result
UnorderedInputReturned ==
    /\ Returned
    /\ \E i, j \in DOMAIN merged_data :
          /\ i < j
          /\ merged_data[i].WGMS_ID = merged_data[j].WGMS_ID
          /\ merged_data[i].YEAR > merged_data[j].YEAR
          /\ \E m, n \in DOMAIN reference_data :
                /\ reference_data[m] = merged_data[j]
                /\ reference_data[n] = merged_data[i]
                /\ x[m] = x[n] /\ y[m] < y[n]

====
